---- MODULE Spec2Model ----
(***************************************************************************)
(* The DataRobot vector database dynamic provider                          *)
(* (infra/components/vector_database_patch.py): the state codec            *)
(* (_vdb_to_dict), the diff engine (diff, _chunking_params_diff) and the   *)
(* lifecycle operations create / read / update / delete run against a      *)
(* remote platform that provisions vector databases asynchronously.        *)
(*                                                                         *)
(* Python values.  None is the empty tuple <<>>, every other value v is    *)
(* the one-element tuple <<v>>.  A dict is a function whose domain is the  *)
(* set of keys present and whose values are such tuples, so that "key      *)
(* absent", "key present with None" and "key present with a value" are     *)
(* three different things, as in the code.  Separator strings are          *)
(* represented by their character codes (naturals) so that sorted() has    *)
(* an order to sort by.                                                    *)
(***************************************************************************)
EXTENDS Integers, Sequences, FiniteSets, TLC

None == <<>>

Some(v) == <<v>>

Val(o) == o[1]

EmptyDict == [k \in {} |-> None]

\* dict.get(key): None when the key is absent
Get(d, k) == IF k \in DOMAIN d THEN d[k] ELSE None

\* dict.get(key, default)
GetOr(d, k, dflt) == IF k \in DOMAIN d THEN d[k] ELSE dflt

\* dict.pop(key, None) on a copy
Pop(d, k) == [j \in (DOMAIN d) \ {k} |-> d[j]]

\* d[key] = value
Put(d, k, v) == [j \in (DOMAIN d) \cup {k} |-> IF j = k THEN v ELSE d[j]]

\* truth value of an optional bool (None and False are falsy)
TruthyBool(o) == o # None /\ Val(o) = TRUE

\* truth value of an optional string (None and "" are falsy)
TruthyStr(o) == o # None /\ Val(o) # ""

\* truth value of an optional dict (None and {} are falsy)
TruthyDict(o) == o # None /\ DOMAIN Val(o) # {}

-----------------------------------------------------------------------------
(* sorted() on a list of separators *)

RECURSIVE Insert(_, _)
Insert(x, s) ==
    IF s = <<>> THEN <<x>>
    ELSE IF x <= Head(s) THEN <<x>> \o s
    ELSE <<Head(s)>> \o Insert(x, Tail(s))

\* mutant of Sorted: the list is left in its order
Unsorted(s) == s

RECURSIVE Sorted(_)
Sorted(s) == IF s = <<>> THEN <<>> ELSE Insert(Head(s), Sorted(Tail(s)))

-----------------------------------------------------------------------------
(* The seven chunking keys, in the order the code walks them *)

keys_to_compare ==
    << "embedding_model", "chunking_method", "chunk_size",
       "chunk_overlap_percentage", "separators", "custom_chunking",
       "embedding_validation_id" >>

ChunkKeys == {keys_to_compare[i] : i \in DOMAIN keys_to_compare}

FlatFields ==
    {"embedding_model", "chunking_method", "chunk_size",
     "chunk_overlap_percentage", "separators"}

-----------------------------------------------------------------------------
(* State codec: _vdb_to_dict(vdb, props) *)

\* the attribute of the remote handle behind a chunking key
VdbField(vdb, key) ==
    CASE key = "embedding_model" -> vdb.embedding_model
      [] key = "chunking_method" -> vdb.chunking_method
      [] key = "chunk_size" -> vdb.chunk_size
      [] key = "chunk_overlap_percentage" -> vdb.chunk_overlap_percentage
      [] key = "separators" -> vdb.separators
      [] key = "custom_chunking" -> vdb.custom_chunking
      [] key = "embedding_validation_id" -> vdb.embedding_validation_id

\* the handle has an embedding_validation_id attribute (hasattr)
HasEmbeddingValidationId(vdb) == "embedding_validation_id" \in DOMAIN vdb

\* does the loop body over props["chunking_parameters"] assign this key?
NestedEmits(vdb, key) ==
    IF key = "custom_chunking" /\ ~TruthyBool(vdb.custom_chunking)
    THEN FALSE
    ELSE \/ key \in FlatFields
         \/ key = "embedding_validation_id" /\ HasEmbeddingValidationId(vdb)

\* mutant of NestedChunking: a fixed serializer that ignores the reference keys
NestedChunkingFixed(vdb, refcp) ==
    [key \in FlatFields |-> VdbField(vdb, key)]

\* the nested chunking_parameters object built from the keys of the reference
NestedChunking(vdb, refcp) ==
    [key \in {k \in DOMAIN refcp : NestedEmits(vdb, k)} |-> VdbField(vdb, key)]

\* iterating props.get("chunking_parameters", {}) raises when the value is None
vdb_to_dict_raises(props) ==
    "chunking_parameters" \in DOMAIN props /\ props["chunking_parameters"] = None

\* mutant of vdb_to_dict_keys: execution_status is always written
vdb_to_dict_keys_with_status(vdb, props) ==
    {"id", "name", "use_case_id", "dataset_id", "execution_status"}
    \cup (IF "chunking_parameters" \in DOMAIN props
          THEN {"chunking_parameters"}
          ELSE FlatFields
               \cup (IF TruthyBool(vdb.custom_chunking)
                     THEN {"custom_chunking"} ELSE {})
               \cup (IF HasEmbeddingValidationId(vdb)
                        /\ vdb.embedding_validation_id # None
                     THEN {"embedding_validation_id"} ELSE {}))
    \cup (IF "chunks_count" \in DOMAIN props THEN {"chunks_count"} ELSE {})

\* the keys of the result
vdb_to_dict_keys(vdb, props) ==
    {"id", "name", "use_case_id", "dataset_id"}
    \cup (IF "chunking_parameters" \in DOMAIN props
          THEN {"chunking_parameters"}
          ELSE FlatFields
               \cup (IF TruthyBool(vdb.custom_chunking)
                     THEN {"custom_chunking"} ELSE {})
               \cup (IF HasEmbeddingValidationId(vdb)
                        /\ vdb.embedding_validation_id # None
                     THEN {"embedding_validation_id"} ELSE {}))
    \cup (IF "chunks_count" \in DOMAIN props THEN {"chunks_count"} ELSE {})
    \cup (IF "execution_status" \in DOMAIN props
          THEN {"execution_status"} ELSE {})

vdb_to_dict(vdb, props) ==
    [key \in vdb_to_dict_keys(vdb, props) |->
        CASE key = "id" -> Some(vdb.id)
          [] key = "name" -> vdb.name
          [] key = "use_case_id" -> vdb.use_case_id
          [] key = "dataset_id" -> vdb.dataset_id
          [] key = "chunking_parameters" ->
                Some(NestedChunking(vdb, Val(props["chunking_parameters"])))
          [] key = "custom_chunking" -> Some(TRUE)
          [] key = "chunks_count" -> Some(vdb.chunks_count)
          [] key = "execution_status" -> Some(vdb.execution_status)
          [] OTHER -> VdbField(vdb, key)]

-----------------------------------------------------------------------------
(* Diff engine: _chunking_params_diff and diff *)

\* mutant of KeyChanged: separators compared like every other key
KeyChangedDirect(key, old_value, new_value) ==
    IF old_value = None /\ new_value = None THEN FALSE
    ELSE IF /\ key = "custom_chunking"
            /\ (old_value = None \/ old_value = Some(FALSE))
            /\ new_value = Some(FALSE)
    THEN FALSE
    ELSE old_value # new_value

\* one iteration of the loop over keys_to_compare: is the key appended to
\* changed_fields?
KeyChanged(key, old_value, new_value) ==
    IF old_value = None /\ new_value = None THEN FALSE
    ELSE IF /\ key = "custom_chunking"
            /\ (old_value = None \/ old_value = Some(FALSE))
            /\ new_value = Some(FALSE)
    THEN FALSE
    ELSE IF key = "separators" /\ old_value # None /\ new_value # None
    THEN Sorted(Val(old_value)) # Sorted(Val(new_value))
    ELSE old_value # new_value

KeyChangedIn(old_params, new_params, key) ==
    KeyChanged(key, Get(old_params, key), Get(new_params, key))

RECURSIVE ChangedFieldsFrom(_, _, _)
ChangedFieldsFrom(old_params, new_params, i) ==
    IF i > Len(keys_to_compare) THEN <<>>
    ELSE (IF KeyChangedIn(old_params, new_params, keys_to_compare[i])
          THEN <<keys_to_compare[i]>> ELSE <<>>)
         \o ChangedFieldsFrom(old_params, new_params, i + 1)

chunking_params_diff(old_params, new_params) ==
    LET changed_fields == ChangedFieldsFrom(old_params, new_params, 1)
    IN  [changed |-> changed_fields # <<>>, changed_fields |-> changed_fields]

\* new_cp_for_diff: the copy of new_cp without an explicit custom_chunking
\* False when the old side does not have the key at all
NewCpForDiff(old_cp, new_cp) ==
    IF "custom_chunking" \notin DOMAIN old_cp
       /\ Get(new_cp, "custom_chunking") = Some(FALSE)
    THEN Pop(new_cp, "custom_chunking")
    ELSE new_cp

\* mutant of OldFlatCp: only the five always-written flat fields are taken
OldFlatCpFiveFields(old_props) ==
    [field \in FlatFields \cap DOMAIN old_props |-> old_props[field]]

\* old_flat_cp: the flattened chunking fields of a legacy-shape state
OldFlatCp(old_props) ==
    [field \in ChunkKeys \cap DOMAIN old_props |-> old_props[field]]

BothNested(old_props, new_props) ==
    "chunking_parameters" \in DOMAIN new_props
    /\ "chunking_parameters" \in DOMAIN old_props

FlatToNested(old_props, new_props) ==
    /\ ~BothNested(old_props, new_props)
    /\ "chunking_parameters" \in DOMAIN new_props
    /\ "embedding_model" \in DOMAIN old_props

\* diff raises (TypeError / AttributeError) when a chunking_parameters it
\* looks into is None instead of a dict
diff_raises(old_props, new_props) ==
    \/ /\ BothNested(old_props, new_props)
       /\ \/ old_props["chunking_parameters"] = None
          \/ new_props["chunking_parameters"] = None
    \/ /\ FlatToNested(old_props, new_props)
       /\ new_props["chunking_parameters"] = None

\* the set replaces before the collapse
ReplacesOf(changed_fields) ==
    {"chunking_parameters." \o changed_fields[i] : i \in DOMAIN changed_fields}

\* mutant of Collapse: the threshold is off by one
CollapseAboveFour(replaces) ==
    IF Cardinality(replaces) > 4 THEN {"chunking_parameters"} ELSE replaces

\* mutant of Collapse: the group marker is added to the field names
CollapseKeepingFields(replaces) ==
    IF Cardinality(replaces) > 3
    THEN replaces \cup {"chunking_parameters"} ELSE replaces

\* more than 3 parameters change: replace the whole thing
Collapse(replaces) ==
    IF Cardinality(replaces) > 3 THEN {"chunking_parameters"} ELSE replaces

\* the (old_cp, new_cp) pair diff compares, when it compares any
ComparedOld(old_props, new_props) ==
    IF BothNested(old_props, new_props)
    THEN Val(old_props["chunking_parameters"])
    ELSE OldFlatCp(old_props)

\* mutant of NameChanged: the name is not compared
NameChangedNever(old_props, new_props) == FALSE

\* name_changed = old_props.get("name") != new_props.get("name")
NameChanged(old_props, new_props) ==
    Get(old_props, "name") # Get(new_props, "name")

\* mutant of DeleteBeforeReplace: the old resource is torn down first
DeleteBeforeReplaceSet == TRUE

\* delete_before_replace=False: create the new resource first
DeleteBeforeReplace == FALSE

\* the DiffResult, with the changed_fields _chunking_params_diff returned
diff(old_props, new_props) ==
    LET name_changed == NameChanged(old_props, new_props)
        compares == BothNested(old_props, new_props)
                    \/ FlatToNested(old_props, new_props)
        old_cp == ComparedOld(old_props, new_props)
        new_cp == Val(new_props["chunking_parameters"])
        cp == IF compares
              THEN chunking_params_diff(old_cp, NewCpForDiff(old_cp, new_cp))
              ELSE [changed |-> FALSE, changed_fields |-> <<>>]
    IN  IF diff_raises(old_props, new_props)
        THEN [raised |-> TRUE, changes |-> FALSE, replaces |-> {},
              delete_before_replace |-> FALSE, changed_fields |-> <<>>]
        ELSE [raised |-> FALSE,
              changes |-> name_changed \/ cp.changed,
              replaces |-> Collapse(ReplacesOf(cp.changed_fields)),
              delete_before_replace |-> DeleteBeforeReplace,
              changed_fields |-> cp.changed_fields]

\* mutant of PropsAfterDiff: custom_chunking is popped from new_cp itself
PropsAfterDiffInPlace(old_props, new_props) ==
    IF /\ ~diff_raises(old_props, new_props)
       /\ BothNested(old_props, new_props) \/ FlatToNested(old_props, new_props)
       /\ "custom_chunking" \notin DOMAIN ComparedOld(old_props, new_props)
       /\ Get(Val(new_props["chunking_parameters"]), "custom_chunking")
             = Some(FALSE)
    THEN Put(new_props, "chunking_parameters",
             Some(Pop(Val(new_props["chunking_parameters"]),
                      "custom_chunking")))
    ELSE new_props

\* the caller's new_props dict once diff has returned or raised: the pop of
\* custom_chunking is done on new_cp.copy(), everything else only reads
PropsAfterDiff(old_props, new_props) == new_props

-----------------------------------------------------------------------------
(* The remote platform: what VectorDatabase.create / get / update / delete *)
(* do to the platform's resources, and the provisioning job's progress     *)

Terminal == {"COMPLETED", "FAILED"}

Statuses == {"QUEUED", "RUNNING", "COMPLETED", "FAILED"}

ErrorMessages == {"e1", "e2"}

\* the value the platform fills in for a chunking field the caller left None
PlatformDefault(key) ==
    CASE key = "embedding_model" -> Some("m0")
      [] key = "chunking_method" -> Some("recursive")
      [] key = "chunk_size" -> Some(256)
      [] key = "chunk_overlap_percentage" -> Some(0)
      [] key = "separators" -> Some(<<1>>)
      [] key = "custom_chunking" -> Some(FALSE)
      [] key = "embedding_validation_id" -> None

\* the ChunkingParameters object create builds from props["chunking_parameters"]
\* (None when it is absent, None or empty)
ChunkingParamsArg(chunking_parameters) ==
    IF TruthyDict(chunking_parameters)
    THEN LET cp == Val(chunking_parameters)
         IN  Some([key \in ChunkKeys |->
                CASE key = "custom_chunking" ->
                        GetOr(cp, "custom_chunking", Some(FALSE))
                  [] key = "embedding_validation_id" ->
                        IF TruthyStr(Get(cp, key)) THEN Get(cp, key) ELSE None
                  [] OTHER -> Get(cp, key)])
    ELSE None

\* the chunking field the platform stores for a new resource
StoredField(chunking_params, key) ==
    LET given == IF chunking_params = None THEN None
                 ELSE Val(chunking_params)[key]
    IN  IF given = None THEN PlatformDefault(key) ELSE given

\* the resource VectorDatabase.create makes
NewResource(id, dataset_id, chunking_params, use_case, name, status, msg) ==
    [id |-> id,
     name |-> name,
     use_case_id |-> use_case,
     dataset_id |-> dataset_id,
     chunks_count |-> IF status = "COMPLETED" THEN 1 ELSE 0,
     execution_status |-> status,
     error_message |-> IF status = "FAILED" THEN Some(msg) ELSE None,
     embedding_model |-> StoredField(chunking_params, "embedding_model"),
     chunking_method |-> StoredField(chunking_params, "chunking_method"),
     chunk_size |-> StoredField(chunking_params, "chunk_size"),
     chunk_overlap_percentage |->
         StoredField(chunking_params, "chunk_overlap_percentage"),
     separators |-> StoredField(chunking_params, "separators"),
     custom_chunking |-> StoredField(chunking_params, "custom_chunking"),
     embedding_validation_id |->
         StoredField(chunking_params, "embedding_validation_id")]

\* the statuses the provisioning job can move to next
NextStatuses(status) ==
    CASE status = "QUEUED" -> {"RUNNING", "FAILED"}
      [] status = "RUNNING" -> {"COMPLETED", "FAILED"}
      [] OTHER -> {}

\* the resource after the job moved to a new status
Progressed(res, status, msg) ==
    [res EXCEPT !.execution_status = status,
                !.chunks_count = IF status = "COMPLETED" THEN 1 ELSE @,
                !.error_message = IF status = "FAILED" THEN Some(msg) ELSE @]

-----------------------------------------------------------------------------
(* Declarations: the props DataRobotVectorDatabase.__init__ hands to the   *)
(* provider, and the operational options create reads from props          *)

\* props as built by the resource constructor: an explicit falsy
\* custom_chunking is dropped from the nested object
Declare(name, chunking_parameters) ==
    LET core == [k \in {"dataset_id", "use_case_id", "name"} |->
                    CASE k = "dataset_id" -> Some("d1")
                      [] k = "use_case_id" -> Some("u1")
                      [] k = "name" -> Some(name)]
    IN  IF chunking_parameters = None THEN core
        ELSE LET chunking_dict == Val(chunking_parameters)
             IN  IF "custom_chunking" \in DOMAIN chunking_dict
                    /\ ~TruthyBool(chunking_dict["custom_chunking"])
                 THEN Put(core, "chunking_parameters",
                          Some(Pop(chunking_dict, "custom_chunking")))
                 ELSE Put(core, "chunking_parameters", Some(chunking_dict))

\* props of a resource declared with all its arguments: wait_for_completion
\* and timeout_seconds are accepted and put nowhere, neither into props nor
\* into an options entry of props
DataRobotVectorDatabase(name, wait_for_completion, timeout_seconds, chunking_parameters) ==
    Declare(name, chunking_parameters)

DefaultTimeout == 600

PollInterval == 5

\* mutant of WaitForCompletion: create always waits
WaitForCompletionAlways(props) == TRUE

\* options.get("wait_for_completion", True)
WaitForCompletion(props) ==
    LET options == Val(GetOr(props, "options", Some(EmptyDict)))
    IN  TruthyBool(GetOr(options, "wait_for_completion", Some(TRUE)))

\* options.get("timeout_seconds", 600)
TimeoutSeconds(props) ==
    LET options == Val(GetOr(props, "options", Some(EmptyDict)))
    IN  Val(GetOr(options, "timeout_seconds", Some(DefaultTimeout)))

\* while vdb.execution_status not in ["COMPLETED", "FAILED"]
LoopContinues(vdb) == vdb.execution_status \notin Terminal

\* mutant of TimedOut: the timeout check is lost
TimedOutNever(elapsed, timeout_seconds) == FALSE

\* mutant of TimedOut: times out when the next re-fetch would come too late
TimedOutBeforeFetch(elapsed, timeout_seconds) ==
    elapsed + PollInterval > timeout_seconds

\* if time.time() - start_time > timeout_seconds
TimedOut(elapsed, timeout_seconds) == elapsed > timeout_seconds

\* mutant of FailedAfterFetch: the FAILED check is lost
FailedAfterFetchNever(vdb) == FALSE

\* mutant of FailedAfterFetch: any terminal status raises
FailedAfterFetchAnyTerminal(vdb) == vdb.execution_status \in Terminal

\* if vdb.execution_status == "FAILED", right after the re-fetch
FailedAfterFetch(vdb) == vdb.execution_status = "FAILED"

\* f"Vector database creation failed: {vdb.error_message}"
FailedMessage(vdb) ==
    "Vector database creation failed: "
    \o (IF vdb.error_message = None THEN "None" ELSE Val(vdb.error_message))

-----------------------------------------------------------------------------
(* Bounds and the inputs of the lifecycle specification *)

\* how many resources the platform is asked to create
MaxIds == 1

\* the short timeout_seconds a caller passes in options
ShortTimeout == 12

\* cap on the loop iterations of one create call; the largest timeout, 600,
\* lets the code make 121 of them, so the cap binds only if the loop fails
\* to time out
MaxPolls == 125

Ids == 1..MaxIds

Names == {"n1", "n2"}

\* a nested declaration of every chunking key
CpFull ==
    [key \in ChunkKeys |->
        CASE key = "embedding_model" -> Some("m1")
          [] key = "chunking_method" -> Some("semantic")
          [] key = "chunk_size" -> Some(512)
          [] key = "chunk_overlap_percentage" -> Some(10)
          [] key = "separators" -> Some(<<2, 1>>)
          [] key = "custom_chunking" -> Some(TRUE)
          [] key = "embedding_validation_id" -> Some("v1")]

\* a nested declaration of some chunking keys, custom_chunking explicitly False
CpPart ==
    [key \in {"embedding_model", "separators", "custom_chunking"} |->
        CASE key = "embedding_model" -> Some("m2")
          [] key = "separators" -> Some(<<1, 2>>)
          [] key = "custom_chunking" -> Some(FALSE)]

\* what a caller may declare as chunking_parameters (None: not declared)
DeclaredCps == {None, Some(CpFull), Some(CpPart)}

\* the options a caller may pass to create (None: no options key)
OptionChoices ==
    {None,
     Some([k \in {"wait_for_completion"} |-> Some(FALSE)]),
     Some([k \in {"wait_for_completion", "timeout_seconds"} |->
              IF k = "wait_for_completion" THEN Some(TRUE)
              ELSE Some(ShortTimeout)]),
     Some([k \in {"timeout_seconds"} |-> Some(0)])}

WithOptions(props, options) ==
    IF options = None THEN props ELSE Put(props, "options", options)

CreateInputs ==
    {WithOptions(Declare("n1", cp), o) : cp \in DeclaredCps, o \in OptionChoices}

\* reference shapes read can be handed besides the last persisted blob: nothing at
\* all (an import by id), and a nested blob that also tracks the observed fields
RefObserved ==
    [k \in {"id", "name", "chunking_parameters", "chunks_count",
            "execution_status"} |->
        CASE k = "id" -> Some(1)
          [] k = "name" -> Some("n1")
          [] k = "chunking_parameters" ->
                Some([j \in {"chunk_size", "custom_chunking",
                             "embedding_validation_id"} |->
                        CASE j = "chunk_size" -> Some(512)
                          [] j = "custom_chunking" -> Some(TRUE)
                          [] j = "embedding_validation_id" -> Some("v1")])
          [] k = "chunks_count" -> Some(0)
          [] k = "execution_status" -> Some("QUEUED")]

RefShapes == {EmptyDict, RefObserved}

-----------------------------------------------------------------------------
(* State *)

VARIABLES
    remote,     \* the platform's resources: id -> handle, for the ids that exist
    nextId,     \* the id the platform gives the next resource
    call,       \* the create call in progress (blocked in its polling loop)
    outcome,    \* what the provider operation last called returned or raised
    old_props,  \* diff's inputs and result
    new_props,
    result

vars == <<remote, nextId, call, outcome, old_props, new_props, result>>

lifecycle_vars == <<remote, nextId, call, outcome>>

diff_vars == <<old_props, new_props, result>>

Idle == [pc |-> "idle", props |-> EmptyDict, vdb |-> EmptyDict,
         elapsed |-> 0, polls |-> 0]

NoOutcome == [op |-> "none", status |-> "none", id |-> 0, outs |-> EmptyDict,
              message |-> "", props |-> EmptyDict, polls |-> 0,
              elapsed |-> 0, renamed |-> FALSE, observed |-> ""]

NoResult == [raised |-> FALSE, changes |-> FALSE, replaces |-> {},
             delete_before_replace |-> FALSE, changed_fields |-> <<>>,
             done |-> FALSE]

Init ==
    /\ remote = EmptyDict
    /\ nextId = 1
    /\ call = Idle
    /\ outcome = NoOutcome
    /\ old_props = EmptyDict
    /\ new_props = EmptyDict
    /\ result = NoResult

-----------------------------------------------------------------------------
(* Lifecycle manager: create, read, update, delete *)

\* an operation returned outs.  observed is the execution_status of the
\* handle it last fetched; polls and elapsed are create's re-fetches and the
\* time since start_time at the last of them
Returned(op, id, outs, props, polls, elapsed, renamed, observed) ==
    [op |-> op, status |-> "ok", id |-> id, outs |-> outs, message |-> "",
     props |-> props, polls |-> polls, elapsed |-> elapsed,
     renamed |-> renamed, observed |-> observed]

\* an operation raised an error of this kind
Raised(op, kind, id, message, props, polls, elapsed, observed) ==
    [op |-> op, status |-> kind, id |-> id, outs |-> EmptyDict,
     message |-> message, props |-> props, polls |-> polls,
     elapsed |-> elapsed, renamed |-> FALSE, observed |-> observed]

\* create is blocked in its polling loop and has returned nothing yet
Pending(id, props) ==
    [op |-> "create", status |-> "pending", id |-> id, outs |-> EmptyDict,
     message |-> "", props |-> props, polls |-> 0, elapsed |-> 0,
     renamed |-> FALSE, observed |-> ""]

\* return CreateResult(id_=vdb.id, outs=self._vdb_to_dict(vdb, props))
CreateReturn(vdb, props, polls, elapsed) ==
    /\ call' = Idle
    /\ outcome' = IF vdb_to_dict_raises(props)
                  THEN Raised("create", "TypeError", vdb.id, "", props,
                              polls, elapsed, vdb.execution_status)
                  ELSE Returned("create", vdb.id, vdb_to_dict(vdb, props),
                                props, polls, elapsed, FALSE,
                                vdb.execution_status)

CreateRaise(kind, vdb, message, props, polls, elapsed) ==
    /\ call' = Idle
    /\ outcome' = Raised("create", kind, vdb.id, message, props, polls,
                         elapsed, vdb.execution_status)

\* create, from its entry to its first time.sleep (or to its end when it
\* does not wait, or the creation response is already terminal)
CreateStart(props, status, msg) ==
    /\ call.pc = "idle"
    /\ nextId <= MaxIds
    /\ LET vdb == NewResource(
                    nextId, Get(props, "dataset_id"),
                    ChunkingParamsArg(
                        GetOr(props, "chunking_parameters", Some(EmptyDict))),
                    Get(props, "use_case_id"), Get(props, "name"),
                    status, msg)
       IN  /\ remote' = Put(remote, nextId, vdb)
           /\ nextId' = nextId + 1
           /\ IF WaitForCompletion(props) /\ LoopContinues(vdb)
              THEN IF TimedOut(0, TimeoutSeconds(props))
                   THEN CreateRaise("TimeoutError", vdb,
                                    "Vector database creation timed out",
                                    props, 0, 0)
                   ELSE /\ call' = [pc |-> "polling", props |-> props,
                                    vdb |-> vdb, elapsed |-> 0, polls |-> 0]
                        /\ outcome' = Pending(vdb.id, props)
              ELSE CreateReturn(vdb, props, 0, 0)
    /\ UNCHANGED diff_vars

\* mutant of CreateWake: a create that raises deletes what it created
CreateWakeCleansUp ==
    /\ call.pc = "polling"
    /\ call.polls < MaxPolls
    /\ LET elapsed == call.elapsed + PollInterval
           vdb == remote[call.vdb.id]
           polls == call.polls + 1
       IN  IF FailedAfterFetch(vdb)
           THEN /\ CreateRaise("Exception", vdb, FailedMessage(vdb),
                               call.props, polls, elapsed)
                /\ remote' = Pop(remote, vdb.id)
           ELSE IF LoopContinues(vdb)
           THEN IF TimedOut(elapsed, TimeoutSeconds(call.props))
                THEN /\ CreateRaise("TimeoutError", vdb,
                                    "Vector database creation timed out",
                                    call.props, polls, elapsed)
                     /\ remote' = Pop(remote, vdb.id)
                ELSE /\ call' = [call EXCEPT !.vdb = vdb, !.elapsed = elapsed,
                                             !.polls = polls]
                     /\ UNCHANGED <<outcome, remote>>
           ELSE /\ CreateReturn(vdb, call.props, polls, elapsed)
                /\ UNCHANGED remote
    /\ UNCHANGED nextId
    /\ UNCHANGED diff_vars

\* create, from the end of one time.sleep(5) to the next one (or to its end):
\* re-fetch, FAILED check, loop condition, timeout check
CreateWake ==
    /\ call.pc = "polling"
    /\ call.polls < MaxPolls
    /\ LET elapsed == call.elapsed + PollInterval
           vdb == remote[call.vdb.id]
           polls == call.polls + 1
       IN  IF FailedAfterFetch(vdb)
           THEN CreateRaise("Exception", vdb, FailedMessage(vdb), call.props,
                            polls, elapsed)
           ELSE IF LoopContinues(vdb)
           THEN IF TimedOut(elapsed, TimeoutSeconds(call.props))
                THEN CreateRaise("TimeoutError", vdb,
                                 "Vector database creation timed out",
                                 call.props, polls, elapsed)
                ELSE /\ call' = [call EXCEPT !.vdb = vdb, !.elapsed = elapsed,
                                             !.polls = polls]
                     /\ UNCHANGED outcome
           ELSE CreateReturn(vdb, call.props, polls, elapsed)
    /\ UNCHANGED <<remote, nextId>>
    /\ UNCHANGED diff_vars

\* the provisioning job of a resource moves on, whenever the platform likes
RemoteProgress(id, status, msg) ==
    /\ id \in DOMAIN remote
    /\ status \in NextStatuses(remote[id].execution_status)
    /\ remote' = [remote EXCEPT ![id] = Progressed(@, status, msg)]
    /\ UNCHANGED <<nextId, call, outcome>>
    /\ UNCHANGED diff_vars

\* the blob the engine last persisted for an id: the outs the last operation
\* returned for it
LastBlob(id) ==
    IF outcome.status = "ok" /\ outcome.id = id
       /\ outcome.op \in {"create", "read", "update"}
    THEN {outcome.outs} ELSE {}

\* the references read is handed for an id
ReadRefs(id) == RefShapes \cup LastBlob(id)

Read(id, props) ==
    /\ call.pc = "idle"
    /\ outcome' =
         IF id \notin DOMAIN remote
         THEN Raised("read", "NotFound", id, "", props, 0, 0, "")
         ELSE IF vdb_to_dict_raises(props)
         THEN Raised("read", "TypeError", id, "", props, 0, 0,
                     remote[id].execution_status)
         ELSE Returned("read", id, vdb_to_dict(remote[id], props), props,
                       0, 0, FALSE, remote[id].execution_status)
    /\ UNCHANGED <<remote, nextId, call>>
    /\ UNCHANGED diff_vars

\* mutant of Renames: the name is not compared with the remote one
RenamesAnyName(vdb, props) == TruthyStr(Get(props, "name"))

\* if name and name != vdb.name
Renames(vdb, props) ==
    TruthyStr(Get(props, "name")) /\ Get(props, "name") # vdb.name

Update(id, props) ==
    /\ call.pc = "idle"
    /\ IF id \notin DOMAIN remote
       THEN /\ outcome' = Raised("update", "NotFound", id, "", props, 0, 0, "")
            /\ UNCHANGED remote
       ELSE LET vdb == IF Renames(remote[id], props)
                       THEN [remote[id] EXCEPT !.name = Get(props, "name")]
                       ELSE remote[id]
            IN  /\ remote' = [remote EXCEPT ![id] = vdb]
                /\ outcome' = Returned("update", id, vdb_to_dict(vdb, props),
                                       props, 0, 0, Renames(remote[id], props),
                                       vdb.execution_status)
    /\ UNCHANGED <<nextId, call>>
    /\ UNCHANGED diff_vars

\* mutant of Delete: a missing resource counts as already deleted
DeleteQuiet(id) ==
    /\ call.pc = "idle"
    /\ remote' = Pop(remote, id)
    /\ outcome' = Returned("delete", id, EmptyDict, EmptyDict, 0, 0, FALSE, "")
    /\ UNCHANGED <<nextId, call>>
    /\ UNCHANGED diff_vars

Delete(id) ==
    /\ call.pc = "idle"
    /\ IF id \notin DOMAIN remote
       THEN /\ outcome' = Raised("delete", "NotFound", id, "", EmptyDict, 0, 0,
                                 "")
            /\ UNCHANGED remote
       ELSE /\ remote' = Pop(remote, id)
            /\ outcome' = Returned("delete", id, EmptyDict, EmptyDict, 0, 0,
                                   FALSE, remote[id].execution_status)
    /\ UNCHANGED <<nextId, call>>
    /\ UNCHANGED diff_vars

\* the declarations update may be handed; the name may be the empty string
UpdateInputs ==
    {Declare(n, cp) : n \in Names, cp \in DeclaredCps} \cup {Declare("", None)}

Next ==
    \/ \E props \in CreateInputs, status \in Statuses, msg \in ErrorMessages :
          CreateStart(props, status, msg)
    \/ CreateWake
    \/ \E id \in Ids, status \in Statuses, msg \in ErrorMessages :
          RemoteProgress(id, status, msg)
    \/ \E id \in Ids : \E props \in ReadRefs(id) : Read(id, props)
    \/ \E id \in Ids, props \in UpdateInputs : Update(id, props)
    \/ \E id \in Ids : Delete(id)

Spec == Init /\ [][Next]_vars

-----------------------------------------------------------------------------
(* The inputs of the diff specification: a prior tracked state (nested,    *)
(* flat legacy or without chunking fields) and a proposed declaration      *)

\* marks a key a dict does not have
Absent == <<0, 0>>

\* the values the prior state may hold under a chunking key
OldChoices(key) ==
    CASE key = "embedding_model" -> {Absent, Some("m1")}
      [] key = "chunking_method" -> {Some("recursive")}
      [] key = "chunk_size" -> {None, Some(256)}
      [] key = "chunk_overlap_percentage" -> {Some(10)}
      [] key = "separators" -> {Absent, Some(<<1, 2>>)}
      [] key = "custom_chunking" -> {Absent, Some(FALSE), Some(TRUE)}
      [] key = "embedding_validation_id" -> {Absent, Some("v1")}

\* the values the proposed declaration may hold under a chunking key
NewChoices(key) ==
    CASE key = "embedding_model" -> {Some("m1"), Some("m2")}
      [] key = "chunking_method" -> {Some("recursive"), Some("semantic")}
      [] key = "chunk_size" -> {Absent, Some(256)}
      [] key = "chunk_overlap_percentage" -> {Some(10), Some(20)}
      [] key = "separators" ->
            {Absent, Some(<<1, 2>>), Some(<<2, 1>>), Some(<<1, 1, 2>>)}
      [] key = "custom_chunking" -> {Absent, Some(FALSE), Some(TRUE)}
      [] key = "embedding_validation_id" -> {Absent, Some("v1")}

\* the dict holding the chosen values under the keys that are not Absent
MkCp(em, cm, cs, co, sep, cc, ev) ==
    LET choice == [key \in ChunkKeys |->
                    CASE key = "embedding_model" -> em
                      [] key = "chunking_method" -> cm
                      [] key = "chunk_size" -> cs
                      [] key = "chunk_overlap_percentage" -> co
                      [] key = "separators" -> sep
                      [] key = "custom_chunking" -> cc
                      [] key = "embedding_validation_id" -> ev]
    IN  [key \in {k \in ChunkKeys : choice[k] # Absent} |-> choice[key]]

OldCps ==
    {MkCp(em, cm, cs, co, sep, cc, ev) :
        em \in OldChoices("embedding_model"),
        cm \in OldChoices("chunking_method"),
        cs \in OldChoices("chunk_size"),
        co \in OldChoices("chunk_overlap_percentage"),
        sep \in OldChoices("separators"),
        cc \in OldChoices("custom_chunking"),
        ev \in OldChoices("embedding_validation_id")}

NewCps ==
    {MkCp(em, cm, cs, co, sep, cc, ev) :
        em \in NewChoices("embedding_model"),
        cm \in NewChoices("chunking_method"),
        cs \in NewChoices("chunk_size"),
        co \in NewChoices("chunk_overlap_percentage"),
        sep \in NewChoices("separators"),
        cc \in NewChoices("custom_chunking"),
        ev \in NewChoices("embedding_validation_id")}

\* the identity fields every tracked state and declaration has
Core(name) ==
    [k \in {"dataset_id", "use_case_id", "name"} |->
        CASE k = "dataset_id" -> Some("d1")
          [] k = "use_case_id" -> Some("u1")
          [] k = "name" -> Some(name)]

\* props with a nested chunking_parameters (a dict, or None)
Nested(name, chunking_parameters) ==
    Put(Core(name), "chunking_parameters", chunking_parameters)

\* props of the legacy shape: the chunking fields directly on the props
Flat(name, cp) ==
    [k \in {"dataset_id", "use_case_id", "name"} \cup DOMAIN cp |->
        IF k \in DOMAIN cp THEN cp[k] ELSE Core(name)[k]]

\* the same declaration pointing at another dataset, or in another use case
OtherDataset(props) == Put(props, "dataset_id", Some("d2"))

OtherUseCase(props) == Put(props, "use_case_id", Some("u2"))

OldProps ==
    {Nested("n1", Some(cp)) : cp \in OldCps}
    \cup {Flat("n1", cp) : cp \in OldCps}
    \cup {Nested("n1", None)}

NewProps ==
    {Nested(n, Some(cp)) : n \in Names, cp \in NewCps}
    \cup {Nested(n, None) : n \in Names}
    \cup {Flat(n, cp) : n \in Names, cp \in OldCps}
    \cup {Core(n) : n \in Names}
    \cup {OtherDataset(Nested(n, Some(cp))) : n \in Names, cp \in OldCps}
    \cup {OtherUseCase(Nested(n, Some(cp))) : n \in Names, cp \in OldCps}

InitDiff ==
    /\ remote = EmptyDict
    /\ nextId = 1
    /\ call = Idle
    /\ outcome = NoOutcome
    /\ old_props \in OldProps
    /\ new_props = EmptyDict
    /\ result = NoResult

\* the engine calls diff(id, old_props, new_props) with a proposed
\* declaration, once in a reconciliation pass
Diff(props) ==
    /\ ~result.done
    /\ new_props' = props
    /\ LET d == diff(old_props, props)
       IN  result' = [raised |-> d.raised,
                      changes |-> d.changes,
                      replaces |-> d.replaces,
                      delete_before_replace |-> d.delete_before_replace,
                      changed_fields |-> d.changed_fields,
                      done |-> TRUE]
    /\ UNCHANGED old_props
    /\ UNCHANGED lifecycle_vars

NextDiff == \E props \in NewProps : Diff(props)

DiffSpec == InitDiff /\ [][NextDiff]_vars

-----------------------------------------------------------------------------
(* diff called, and called again, on the props the engine holds for a      *)
(* resource that exists on the platform                                    *)

\* the id of the resource the engine tracks, created before the ids the
\* platform hands out from here on
OldId == 0

\* the resource of the declaration CpFull, provisioned
Provisioned ==
    NewResource(OldId, Some("d1"), ChunkingParamsArg(Some(CpFull)), Some("u1"),
                Some("n1"), "COMPLETED", "e1")

\* the proposed declarations of the repeated calls: the resource keeps its name
HeldNewProps == {props \in NewProps : Get(props, "name") = Some("n1")}

InitHeld ==
    /\ remote = Put(EmptyDict, OldId, Provisioned)
    /\ nextId = 1
    /\ call = Idle
    /\ outcome = NoOutcome
    /\ old_props \in OldProps
    /\ new_props \in HeldNewProps
    /\ result = NoResult

\* diff(id, old_props, new_props) on the dicts the engine holds
DiffCall ==
    /\ LET d == diff(old_props, new_props)
       IN  result' = [raised |-> d.raised,
                      changes |-> d.changes,
                      replaces |-> d.replaces,
                      delete_before_replace |-> d.delete_before_replace,
                      changed_fields |-> d.changed_fields,
                      done |-> TRUE]
    /\ new_props' = PropsAfterDiff(old_props, new_props)
    /\ UNCHANGED old_props
    /\ UNCHANGED lifecycle_vars

NextHeld == DiffCall

HeldSpec == InitHeld /\ [][NextHeld]_vars

-----------------------------------------------------------------------------
(* A replacement: the engine diffs the tracked state of a provisioned      *)
(* resource against a new declaration and, when diff names fields to       *)
(* replace, creates the new resource and deletes the old one in the order  *)
(* delete_before_replace tells it                                          *)

\* the blob the engine tracks for the provisioned resource
TrackedBlob == vdb_to_dict(Provisioned, Declare("n1", Some(CpFull)))

\* the declarations the engine may be handed for the resource
ReplaceInputs == {Declare(n, cp) : n \in Names, cp \in DeclaredCps}

InitReplace ==
    /\ remote = Put(EmptyDict, OldId, Provisioned)
    /\ nextId = 1
    /\ call = Idle
    /\ outcome = NoOutcome
    /\ old_props = TrackedBlob
    /\ new_props = EmptyDict
    /\ result = NoResult

\* diff returned fields to replace
Replacing == result.done /\ ~result.raised /\ result.replaces # {}

\* the engine calls create for the new declaration: at once, or once the
\* old resource is gone when diff asked for delete-before-replace
ReplaceCreate(status, msg) ==
    /\ Replacing
    /\ nextId = 1
    /\ IF result.delete_before_replace THEN OldId \notin DOMAIN remote ELSE TRUE
    /\ CreateStart(new_props, status, msg)

\* the engine calls delete for the old resource: once create has returned,
\* or before it calls create when diff asked for delete-before-replace
ReplaceDelete ==
    /\ Replacing
    /\ OldId \in DOMAIN remote
    /\ IF result.delete_before_replace
       THEN nextId = 1
       ELSE outcome.op = "create" /\ outcome.status = "ok"
    /\ Delete(OldId)

NextReplace ==
    \/ \E props \in ReplaceInputs : Diff(props)
    \/ \E status \in Statuses, msg \in ErrorMessages :
          ReplaceCreate(status, msg)
    \/ CreateWake
    \/ \E id \in Ids, status \in Statuses, msg \in ErrorMessages :
          RemoteProgress(id, status, msg)
    \/ ReplaceDelete

ReplaceSpec == InitReplace /\ [][NextReplace]_vars

-----------------------------------------------------------------------------
(* Fairness: a create call blocked in time.sleep wakes up and runs its     *)
(* next loop iteration; the platform is under no obligation to progress    *)

LiveSpec == Spec /\ WF_vars(CreateWake)

-----------------------------------------------------------------------------
(* Properties of read and create *)

CoreKeys == {"id", "name", "use_case_id", "dataset_id"}

ReadReturned == outcome.op = "read" /\ outcome.status = "ok"

\* the keys of the nested chunking_parameters of a blob (none without one)
NestedKeys(blob) ==
    IF "chunking_parameters" \in DOMAIN blob
       /\ blob["chunking_parameters"] # None
    THEN DOMAIN Val(blob["chunking_parameters"])
    ELSE {}

\* C1 as stated: the blob read returns has no key, at the top level or inside
\* chunking_parameters, that the reference blob it was handed does not have.
C1_ReadAddsNoKey ==
    ReadReturned =>
        /\ DOMAIN outcome.outs \subseteq DOMAIN outcome.props
        /\ NestedKeys(outcome.outs) \subseteq NestedKeys(outcome.props)

\* C1 amended: the keys read adds to those of the reference blob are at most
\* the four core keys id, name, use_case_id, dataset_id and, only when the
\* reference has no chunking_parameters key, the flattened chunking fields;
\* inside chunking_parameters read adds no key, and chunks_count and
\* execution_status appear only when the reference has them.
C1_ReadKeysFollowReference ==
    ReadReturned =>
        /\ (DOMAIN outcome.outs) \ (DOMAIN outcome.props) \subseteq
              CoreKeys \cup (IF "chunking_parameters" \in DOMAIN outcome.props
                             THEN {} ELSE ChunkKeys)
        /\ NestedKeys(outcome.outs) \subseteq NestedKeys(outcome.props)

\* C1 witness: read returned for a nested reference that lacks keys the remote
\* resource has populated
C1_Witness ==
    /\ ReadReturned
    /\ outcome.props = RefObserved
    /\ remote[outcome.id].embedding_model # None
    /\ remote[outcome.id].separators # None
    /\ "chunks_count" \in DOMAIN outcome.outs

\* create was called with wait_for_completion true, entered its polling loop
\* (the creation response was not terminal) and has ended
WaitedCreateEnded ==
    /\ outcome.op = "create"
    /\ outcome.status # "pending"
    /\ WaitForCompletion(outcome.props)
    /\ outcome.polls >= 1

\* C2: a waiting create whose polling first observes a terminal status that is
\* FAILED returns nothing and raises the provisioning error, whose message
\* carries the error_message the remote resource reports.
C2_FailedRaisesWithMessage ==
    (WaitedCreateEnded /\ outcome.observed = "FAILED") =>
        /\ outcome.status = "Exception"
        /\ outcome.outs = EmptyDict
        /\ remote[outcome.id].error_message # None
        /\ outcome.message =
              "Vector database creation failed: "
              \o Val(remote[outcome.id].error_message)

\* C2 witness: the third re-fetch observed FAILED with the message e2
C2_Witness ==
    /\ WaitedCreateEnded
    /\ outcome.observed = "FAILED"
    /\ outcome.polls = 3
    /\ remote[outcome.id].error_message = Some("e2")

\* C3: under a clock that each sleep advances by the poll interval, a waiting
\* create always ends; and when it ends without having observed COMPLETED or
\* FAILED it has raised TimeoutError, not returned.
C3_CreateTerminates ==
    /\ (call.pc = "polling") ~> (call.pc = "idle")
    /\ []((WaitedCreateEnded /\ outcome.observed \notin Terminal)
             => outcome.status = "TimeoutError" /\ outcome.outs = EmptyDict)

\* C3 witness: a create that polled a never-terminal resource timed out
C3_Witness ==
    /\ WaitedCreateEnded
    /\ outcome.observed = "RUNNING"
    /\ outcome.status = "TimeoutError"
    /\ TimeoutSeconds(outcome.props) = DefaultTimeout

\* C4 as stated: no re-fetch is made at an elapsed time beyond
\* timeout_seconds (so with timeout_seconds = ShortTimeout = 12 at most two
\* polls precede the timeout error), and create never returns success from a
\* status fetched later than timeout_seconds.
C4_NoFetchBeyondTimeout ==
    WaitedCreateEnded =>
        /\ outcome.elapsed <= TimeoutSeconds(outcome.props)
        /\ (outcome.status = "TimeoutError"
            /\ TimeoutSeconds(outcome.props) = ShortTimeout)
              => outcome.polls <= ShortTimeout \div PollInterval

\* C4 amended: the timeout is checked before each sleep, not before each
\* re-fetch: a re-fetch is made whenever the elapsed time at the preceding
\* check did not exceed timeout_seconds, so the last re-fetch happens at most
\* one poll interval (5 s) after timeout_seconds.  A never-terminal status
\* gets timeout_seconds \div 5 + 1 polls before the timeout error (three, at
\* 5, 10 and 15 s, for timeout_seconds = 12), and create can return success
\* from a status fetched up to 5 s beyond timeout_seconds.
C4_FetchWithinOneInterval ==
    /\ call.pc = "polling" => call.elapsed <= TimeoutSeconds(call.props)
    /\ WaitedCreateEnded =>
          /\ outcome.elapsed = outcome.polls * PollInterval
          /\ outcome.elapsed - PollInterval <= TimeoutSeconds(outcome.props)
          /\ outcome.status = "TimeoutError" =>
                /\ outcome.elapsed > TimeoutSeconds(outcome.props)
                /\ outcome.polls =
                      TimeoutSeconds(outcome.props) \div PollInterval + 1
    /\ (outcome.op = "create" /\ outcome.status = "TimeoutError")
          => outcome.polls >= 1

\* C4 witness: create returned success from a status fetched at an elapsed
\* time beyond timeout_seconds
C4_Witness ==
    /\ WaitedCreateEnded
    /\ outcome.status = "ok"
    /\ outcome.elapsed > TimeoutSeconds(outcome.props)

\* C5: a waiting create whose polling observes COMPLETED returns at that very
\* observation, without error, the remote id and the projection of the
\* remote resource shaped by the spec it was given; until then it keeps
\* polling.
C5_CompletedReturnsProjection ==
    /\ call.pc = "polling" => call.vdb.execution_status \notin Terminal
    /\ (WaitedCreateEnded /\ outcome.observed = "COMPLETED") =>
          /\ outcome.status = "ok"
          /\ outcome.id \in DOMAIN remote
          /\ remote[outcome.id].execution_status = "COMPLETED"
          /\ outcome.outs["id"] = Some(outcome.id)
          /\ outcome.outs["name"] = outcome.props["name"]
          /\ outcome.outs["dataset_id"] = outcome.props["dataset_id"]
          /\ outcome.outs["use_case_id"] = outcome.props["use_case_id"]
          /\ ("chunking_parameters" \in DOMAIN outcome.outs)
                <=> ("chunking_parameters" \in DOMAIN outcome.props)
          /\ NestedKeys(outcome.outs) \subseteq NestedKeys(outcome.props)
          /\ \A key \in NestedKeys(outcome.outs) :
                Val(outcome.outs["chunking_parameters"])[key]
                   = VdbField(remote[outcome.id], key)
          /\ "options" \notin DOMAIN outcome.outs
    /\ (WaitedCreateEnded /\ outcome.status = "ok")
          => outcome.observed = "COMPLETED"

\* C5 witness: QUEUED at creation, COMPLETED at the third re-fetch (the fourth
\* observation, 15 s after the start), under the default timeout
C5_Witness ==
    /\ WaitedCreateEnded
    /\ outcome.status = "ok"
    /\ outcome.polls = 3
    /\ outcome.elapsed = 15
    /\ "options" \notin DOMAIN outcome.props
    /\ "chunking_parameters" \in DOMAIN outcome.outs

-----------------------------------------------------------------------------
(* Properties of diff *)

\* diff has run on a pair of props whose chunking_parameters, where declared,
\* are dicts
DiffDone ==
    /\ result.done
    /\ "chunking_parameters" \in DOMAIN old_props
          => old_props["chunking_parameters"] # None
    /\ "chunking_parameters" \in DOMAIN new_props
          => new_props["chunking_parameters"] # None

\* both old and new declare a nested chunking_parameters
BothDeclareNested ==
    /\ DiffDone
    /\ "chunking_parameters" \in DOMAIN old_props
    /\ "chunking_parameters" \in DOMAIN new_props

OldCp == Val(old_props["chunking_parameters"])

NewCp == Val(new_props["chunking_parameters"])

SameName == Get(old_props, "name") = Get(new_props, "name")

\* old and new are the same but for the value under one chunking key
SameButFor(key) == Pop(OldCp, key) = Pop(NewCp, key)

Compared ==
    /\ DiffDone
    /\ "chunking_parameters" \in DOMAIN new_props
    /\ \/ "chunking_parameters" \in DOMAIN old_props
       \/ "embedding_model" \in DOMAIN old_props

\* the value of a chunking key on each side of the comparison
OldValue(key) ==
    IF "chunking_parameters" \in DOMAIN old_props
    THEN Get(OldCp, key) ELSE Get(old_props, key)

NewValue(key) == Get(NewCp, key)

Flagged(key) ==
    \E i \in DOMAIN result.changed_fields : result.changed_fields[i] = key

Elements(s) == {s[i] : i \in DOMAIN s}

Occurrences(s, x) == Cardinality({i \in DOMAIN s : s[i] = x})

SameSet(s, t) == Elements(s) = Elements(t)

SameBag(s, t) ==
    \A x \in Elements(s) \cup Elements(t) : Occurrences(s, x) = Occurrences(t, x)

BothSeparators ==
    Compared /\ OldValue("separators") # None /\ NewValue("separators") # None

\* C7 as stated: with separators present on both sides, the key is flagged as
\* changed exactly when the sets of separator strings differ.
C7_SeparatorsAsSets ==
    BothSeparators =>
        (Flagged("separators")
            <=> ~SameSet(Val(OldValue("separators")),
                         Val(NewValue("separators"))))

\* C7 amended: with separators present on both sides, the key is flagged as
\* changed exactly when the two sequences differ as multisets: sequences that
\* differ only in order are equal, sequences that differ in how often an
\* element is repeated are flagged.
C7_SeparatorsAsBags ==
    BothSeparators =>
        (Flagged("separators")
            <=> ~SameBag(Val(OldValue("separators")),
                         Val(NewValue("separators"))))

\* C7 witness: the same set of separators with a repeated element is flagged
C7_Witness ==
    /\ BothSeparators
    /\ OldValue("separators") = Some(<<1, 2>>)
    /\ NewValue("separators") = Some(<<1, 1, 2>>)
    /\ Flagged("separators")

\* C8: when the only difference between old and new is that the new
\* separators are a permutation of the old ones, diff reports no change and
\* no replacement.
C8_PermutationIsNoChange ==
    (/\ BothDeclareNested
     /\ SameName
     /\ SameButFor("separators")
     /\ "separators" \in DOMAIN OldCp
     /\ "separators" \in DOMAIN NewCp
     /\ SameBag(Val(OldCp["separators"]), Val(NewCp["separators"])))
    => (~result.changes /\ result.replaces = {})

\* C8 witness: [a, b] against [b, a], everything else equal
C8_Witness ==
    /\ BothDeclareNested
    /\ SameName
    /\ SameButFor("separators")
    /\ Get(OldCp, "separators") = Some(<<1, 2>>)
    /\ Get(NewCp, "separators") = Some(<<2, 1>>)
    /\ "custom_chunking" \in DOMAIN OldCp

\* does a chunking key differ between old and new: not when both sides are
\* absent or null, not for custom_chunking absent-or-False against False,
\* for separators by the given comparison, otherwise by inequality of values
Differs(key, sameSeparators(_, _)) ==
    LET o == OldValue(key)
        n == NewValue(key)
    IN  IF o = None /\ n = None THEN FALSE
        ELSE IF key = "custom_chunking" /\ o \in {None, Some(FALSE)}
                /\ n = Some(FALSE)
        THEN FALSE
        ELSE IF key = "separators" /\ o # None /\ n # None
        THEN ~sameSeparators(Val(o), Val(n))
        ELSE o # n

Prefixed(keys) == {"chunking_parameters." \o k : k \in keys}

CollapseRule(differing) ==
    /\ Cardinality(differing) > 3 =>
          (result.changes /\ result.replaces = {"chunking_parameters"})
    /\ Cardinality(differing) \in 1..3 =>
          (result.changes /\ result.replaces = Prefixed(differing))

\* C9 as stated: more than three differing chunking keys give replaceFields =
\* {"chunking_parameters"}, one to three give exactly the prefixed differing
\* keys, changed is true in both cases; separators differ as sets.
C9_CollapseBySets ==
    Compared => CollapseRule({k \in ChunkKeys : Differs(k, SameSet)})

\* C9 amended: the same collapse rule, where separators present on both sides
\* count as differing when they differ as multisets (in order-insensitive
\* comparison with repetitions counted).
C9_CollapseByBags ==
    Compared => CollapseRule({k \in ChunkKeys : Differs(k, SameBag)})

\* C9 witness: exactly four keys differ and the group marker is returned
C9_Witness ==
    /\ Compared
    /\ Cardinality({k \in ChunkKeys : Differs(k, SameBag)}) = 4
    /\ result.replaces = {"chunking_parameters"}

\* old and new are the same props but for the name
OnlyNameDiffers ==
    /\ DiffDone
    /\ ~SameName
    /\ DOMAIN old_props = DOMAIN new_props
    /\ \A k \in (DOMAIN old_props) \ {"name"} : old_props[k] = new_props[k]

\* C10: diffing a spec against the same spec with only the name changed,
\* in the nested or the flat shape, reports a change and no replacement.
C10_NameOnlyIsUpdate ==
    OnlyNameDiffers => (result.changes /\ result.replaces = {})

\* C10 witness: a nested declaration with custom_chunking and separators,
\* renamed
C10_Witness ==
    /\ OnlyNameDiffers
    /\ "chunking_parameters" \in DOMAIN old_props
    /\ Get(OldCp, "custom_chunking") = Some(TRUE)
    /\ "separators" \in DOMAIN OldCp
    /\ result.changes

-----------------------------------------------------------------------------
(* Properties of the flat-to-nested migration *)

\* the prior state has the flat legacy shape diff recognises: no
\* chunking_parameters key, embedding_model at top level; the new one is nested
FlatAgainstNested ==
    /\ DiffDone
    /\ "chunking_parameters" \notin DOMAIN old_props
    /\ "embedding_model" \in DOMAIN old_props
    /\ "chunking_parameters" \in DOMAIN new_props

\* the value a chunking key stands for: an absent or null custom_chunking
\* stands for false
Underlying(key, value) ==
    IF key = "custom_chunking" /\ value = None THEN Some(FALSE) ELSE value

\* both sides stand for the same chunking values, key by key
EqualUnderlying ==
    \A key \in ChunkKeys :
        Underlying(key, OldValue(key)) = Underlying(key, NewValue(key))

\* C11 as stated: a prior flat state diffed against a nested declaration with
\* the same name and equal underlying chunking values reports no change and
\* no replacement.
C11_FlatMigrationNoChange ==
    (FlatAgainstNested /\ SameName /\ EqualUnderlying)
    => (~result.changes /\ result.replaces = {})

\* the prior state has no chunking_parameters key but at least one flattened
\* chunking field; the new one is nested
LegacyAgainstNested ==
    /\ DiffDone
    /\ "chunking_parameters" \notin DOMAIN old_props
    /\ ChunkKeys \cap DOMAIN old_props # {}
    /\ "chunking_parameters" \in DOMAIN new_props

\* the field is reported for replacement, by itself or under the group marker
Replaced(key) ==
    /\ result.changes
    /\ \/ ("chunking_parameters." \o key) \in result.replaces
       \/ result.replaces = {"chunking_parameters"}

\* C12 as stated: a prior state with no chunking_parameters key but any
\* flattened chunking field, diffed against a nested declaration, is
\* compared key by key: every chunking field whose value differs is reported
\* as changed and for replacement.
C12_AnyFlatFieldIsLegacy ==
    LegacyAgainstNested =>
        \A key \in ChunkKeys : Differs(key, SameSet) => Replaced(key)

\* C12 amended: the prior state is compared when it has embedding_model at
\* top level (and no chunking_parameters key); then every chunking field
\* whose value differs is reported as changed and for replacement.  A prior
\* state with other flattened fields but no embedding_model is not compared.
C12_EmbeddingModelIsLegacy ==
    /\ FlatAgainstNested =>
          \A key \in ChunkKeys : Differs(key, SameSet) => Replaced(key)
    /\ (LegacyAgainstNested /\ ~FlatAgainstNested) =>
          (result.replaces = {} /\ (result.changes <=> ~SameName))

\* C12 witness: a flat prior state with an embedding_validation_id the nested
\* declaration does not have
C12_Witness ==
    /\ FlatAgainstNested
    /\ OldValue("embedding_validation_id") = Some("v1")
    /\ NewValue("embedding_validation_id") = None
    /\ result.replaces = {"chunking_parameters.embedding_validation_id"}

-----------------------------------------------------------------------------
(* Properties of the decision diff hands to the engine *)

\* the value props declare for a chunking key, in either shape
DeclaredValue(props, key) ==
    IF "chunking_parameters" \in DOMAIN props
    THEN Get(Val(props["chunking_parameters"]), key)
    ELSE Get(props, key)

\* old and new declare the same chunking parameters: key by key the same
\* underlying value, separators as the same set
SameDeclaredChunking ==
    \A key \in ChunkKeys :
        LET o == DeclaredValue(old_props, key)
            n == DeclaredValue(new_props, key)
        IN  \/ Underlying(key, o) = Underlying(key, n)
            \/ /\ key = "separators" /\ o # None /\ n # None
               /\ SameSet(Val(o), Val(n))

\* diff decided for an in-place update
UpdateDecided == DiffDone /\ ~result.raised /\ result.changes /\ result.replaces = {}

\* C13 as stated: whenever diff returns changed=true with empty
\* replaceFields, old and new differ only in name: dataset_id, use_case_id
\* and the declared chunking parameters are equal.
C13_UpdateMeansNameOnly ==
    UpdateDecided =>
        /\ ~SameName
        /\ Get(old_props, "dataset_id") = Get(new_props, "dataset_id")
        /\ Get(old_props, "use_case_id") = Get(new_props, "use_case_id")
        /\ SameDeclaredChunking

-----------------------------------------------------------------------------
(* Properties of the state codec and of update, delete and failed calls *)

\* create, read or update returned a blob
BlobReturned ==
    outcome.status = "ok" /\ outcome.op \in {"create", "read", "update"}

\* the blob is the projection of the remote resource vdb through the
\* reference shape ref
IsProjection(blob, vdb, ref) ==
    /\ CoreKeys \subseteq DOMAIN blob
    /\ blob["id"] = Some(vdb.id)
    /\ blob["name"] = vdb.name
    /\ blob["use_case_id"] = vdb.use_case_id
    /\ blob["dataset_id"] = vdb.dataset_id
    /\ "chunks_count" \in DOMAIN blob <=> "chunks_count" \in DOMAIN ref
    /\ "chunks_count" \in DOMAIN blob =>
          blob["chunks_count"] = Some(vdb.chunks_count)
    /\ "execution_status" \in DOMAIN blob <=> "execution_status" \in DOMAIN ref
    /\ "execution_status" \in DOMAIN blob =>
          blob["execution_status"] = Some(vdb.execution_status)
    /\ "chunking_parameters" \in DOMAIN blob
          <=> "chunking_parameters" \in DOMAIN ref
    /\ IF "chunking_parameters" \in DOMAIN ref
       THEN /\ NestedKeys(blob) \subseteq NestedKeys(ref)
            /\ \A key \in NestedKeys(blob) :
                  Val(blob["chunking_parameters"])[key] = VdbField(vdb, key)
            /\ ChunkKeys \cap DOMAIN blob = {}
       ELSE /\ FlatFields \subseteq DOMAIN blob
            /\ \A key \in FlatFields : blob[key] = VdbField(vdb, key)
    /\ "options" \notin DOMAIN blob

\* C14: whenever create, read or update returns a blob, the blob is the
\* projection of the remote resource as it is at that moment through the
\* reference props the operation was handed: the four core keys from the
\* remote; chunks_count and execution_status exactly when the reference has
\* them; a nested chunking_parameters with only keys of the reference's
\* nested object, filled from the remote, and no flattened chunking key
\* exactly when the reference has chunking_parameters, otherwise the five
\* flattened fields; and never an options key.
C14_BlobIsProjection ==
    [][(outcome' # outcome /\ BlobReturned')
        => IsProjection(outcome'.outs, remote'[outcome'.id], outcome'.props)]_vars

\* C14 witness: update returned a blob for a nested declaration of two keys
\* while the remote resource has more chunking fields populated
C14_Witness ==
    /\ BlobReturned
    /\ outcome.op = "update"
    /\ NestedKeys(outcome.outs) = {"embedding_model", "separators"}
    /\ NestedKeys(outcome.props) = {"embedding_model", "separators"}
    /\ remote[outcome.id].chunk_size # None
    /\ remote[outcome.id].custom_chunking = Some(TRUE)

\* this step is a call of update that returned or raised
UpdateStep == outcome' # outcome /\ outcome'.op = "update"

\* the remote resource of the call keeps every field but the name, and no
\* other resource is touched
OnlyNameMayChange(id) ==
    /\ DOMAIN remote' = DOMAIN remote
    /\ \A other \in (DOMAIN remote) \ {id} : remote'[other] = remote[other]
    /\ \A field \in (DOMAIN remote[id]) \ {"name"} :
          remote'[id][field] = remote[id][field]

\* C15 as stated: update renames the remote resource exactly when the new
\* name differs from the remote's current name, and changes no other remote
\* field.
C15_RenameIffNameDiffers ==
    [][(UpdateStep /\ outcome'.status = "ok") =>
         LET id == outcome'.id
             name == Get(outcome'.props, "name")
         IN  /\ OnlyNameMayChange(id)
             /\ (name # remote[id].name) <=> outcome'.renamed
             /\ remote'[id].name = name]_vars

\* C15 amended: update renames the remote resource exactly when the new name
\* is non-empty and differs from the remote's current name (an absent or
\* empty new name leaves the remote name as it is), and in every case,
\* including a call that fails, changes no other remote field.
C15_RenameIffNonEmptyNameDiffers ==
    [][UpdateStep =>
         IF outcome'.status = "ok"
         THEN LET id == outcome'.id
                  name == Get(outcome'.props, "name")
                  renames == /\ name \notin {None, Some("")}
                             /\ name # remote[id].name
              IN  /\ OnlyNameMayChange(id)
                  /\ renames <=> outcome'.renamed
                  /\ remote'[id].name = IF renames THEN name
                                        ELSE remote[id].name
         ELSE remote' = remote]_vars

\* C15 witness: update renamed a resource whose declared embedding_model
\* also differs from the remote one, which stays as it was
C15_Witness ==
    /\ outcome.op = "update"
    /\ outcome.status = "ok"
    /\ outcome.renamed
    /\ remote[outcome.id].name = Some("n2")
    /\ remote[outcome.id].embedding_model = Some("m1")
    /\ DeclaredValue(outcome.props, "embedding_model") = Some("m2")

\* the platform does not recognize the id: never created, or deleted
Unknown(id) == id \notin DOMAIN remote

\* the id was created and has been deleted
Deleted(id) == id < nextId /\ id \notin DOMAIN remote

\* this step is a call of read, update or delete that returned or raised
CallOn(ops) == outcome' # outcome /\ outcome'.op \in ops

\* C16: delete of an id the platform does not recognize raises the
\* missing-resource error and leaves the remote state unchanged; delete of
\* an existing resource removes it and nothing else; a deleted id stays
\* unknown, and read, update and delete on an unknown id raise the
\* missing-resource error.
C16_DeleteSurfacesNotFound ==
    [][/\ CallOn({"delete"}) =>
            IF Unknown(outcome'.id)
            THEN outcome'.status = "NotFound" /\ remote' = remote
            ELSE outcome'.status = "ok" /\ remote' = Pop(remote, outcome'.id)
       /\ (CallOn({"read", "update", "delete"}) /\ Unknown(outcome'.id)) =>
            (outcome'.status = "NotFound" /\ remote' = remote)
       /\ \A id \in Ids : Deleted(id) => Deleted(id)']_vars

\* C16 witness: a second delete of a resource that was created and deleted
\* raised the missing-resource error
C16_Witness ==
    /\ outcome.op = "delete"
    /\ outcome.status = "NotFound"
    /\ Deleted(outcome.id)

\* the ways an operation ends with an error
Errors == {"NotFound", "TypeError", "TimeoutError", "Exception"}

\* create ended with a timeout or a provisioning error
CreateFailed ==
    outcome.op = "create" /\ outcome.status \in {"TimeoutError", "Exception"}

\* between two states the remote changed by nothing but the platform's own
\* provisioning jobs
OnlyPlatformProgress ==
    /\ DOMAIN remote' = DOMAIN remote
    /\ \A id \in DOMAIN remote :
          \/ remote'[id] = remote[id]
          \/ \E status \in NextStatuses(remote[id].execution_status),
                msg \in ErrorMessages :
                remote'[id] = Progressed(remote[id], status, msg)

-----------------------------------------------------------------------------
(* Properties of diff as a function: totality, purity, replacement order *)

\* C18 as stated: diff returns a decision for every pair of old and new
\* props, and never raises.
C18_DiffNeverRaises == result.done => ~result.raised

C20_CreateBeforeDelete ==
    /\ [](result.done => ~result.delete_before_replace)
    /\ [](DOMAIN remote # {})
    /\ [][(OldId \in DOMAIN remote /\ OldId \notin DOMAIN remote') =>
            /\ outcome.op = "create"
            /\ outcome.status = "ok"
            /\ outcome.id \in DOMAIN remote'
            /\ call = Idle]_vars

\* C20 witness: the replacement is over: the new resource exists and the old
\* one has been deleted
C20_Witness ==
    /\ Replacing
    /\ outcome.op = "delete"
    /\ outcome.status = "ok"
    /\ outcome.id = OldId
    /\ DOMAIN remote = {1}

-----------------------------------------------------------------------------
(* Properties of create: declared options, the status it returns with *)

\* C21 as stated: create on the props of a resource declared with
\* wait_for_completion False does not enter the polling loop, and create on
\* the props of a resource declared with timeout_seconds T that times out
\* does so within one poll interval after T seconds.
C21_DeclaredOptionsHonoured ==
    \A name \in Names, chunking_parameters \in DeclaredCps,
       timeout_seconds \in {ShortTimeout, DefaultTimeout} :
        /\ call.pc = "polling" =>
              call.props # DataRobotVectorDatabase(
                              name, FALSE, timeout_seconds, chunking_parameters)
        /\ (/\ outcome.op = "create"
            /\ outcome.status = "TimeoutError"
            /\ outcome.props = DataRobotVectorDatabase(
                                  name, TRUE, timeout_seconds,
                                  chunking_parameters))
           => outcome.elapsed <= timeout_seconds + PollInterval

\* C22 as stated: whenever create with wait_for_completion true returns, the
\* status of the remote resource in the state it projects is COMPLETED; it
\* never returns for a resource whose status is FAILED.
C22_ReturnsOnlyCompleted ==
    (/\ outcome.op = "create"
     /\ outcome.status = "ok"
     /\ WaitForCompletion(outcome.props))
    => outcome.observed = "COMPLETED"

-----------------------------------------------------------------------------
(* Properties relating the codec and diff *)

\* diff of a tracked blob against a declaration decides for no action
NoChange(blob, props) ==
    LET d == diff(blob, props) IN ~d.raised /\ ~d.changes

\* the remote resource is the one create makes from props: it has the name
\* and stores the chunking values props give
CreatedFrom(vdb, props) ==
    /\ vdb.name = Get(props, "name")
    /\ \A key \in ChunkKeys :
          VdbField(vdb, key) =
             StoredField(
                 ChunkingParamsArg(
                     GetOr(props, "chunking_parameters", Some(EmptyDict))),
                 key)

\* C23 as stated: the blob create returns for a declaration, and the blob a
\* later read returns when handed that blob, diffed against the same
\* declaration give changed = false.
C23_NoDiffAfterCreate ==
    /\ (outcome.op = "create" /\ outcome.status = "ok")
          => NoChange(outcome.outs, outcome.props)
    /\ \A props \in CreateInputs :
          (/\ ReadReturned
           /\ CreatedFrom(remote[outcome.id], props)
           /\ outcome.props = vdb_to_dict(remote[outcome.id], props))
          => NoChange(outcome.outs, props)

\* C24 as stated: the nested chunking_parameters of a returned blob has
\* custom_chunking, with the value true, exactly when custom_chunking is a
\* key of the reference's chunking_parameters and the remote resource's
\* custom_chunking is true.
C24_NestedCustomChunking ==
    (BlobReturned /\ "chunking_parameters" \in DOMAIN outcome.props) =>
        /\ "custom_chunking" \in NestedKeys(outcome.outs)
              <=> /\ "custom_chunking" \in NestedKeys(outcome.props)
                  /\ remote[outcome.id].custom_chunking = Some(TRUE)
        /\ "custom_chunking" \in NestedKeys(outcome.outs) =>
              Val(outcome.outs["chunking_parameters"])["custom_chunking"]
                 = Some(TRUE)

\* the props carry options with wait_for_completion False
DeclinesWait(props) ==
    /\ "options" \in DOMAIN props
    /\ Get(Val(props["options"]), "wait_for_completion") = Some(FALSE)

\* C25: a create called with wait_for_completion False ends in the step of
\* its creation call: it makes exactly one resource, does no re-fetch and
\* spends no time waiting, raises nothing whatever the status of the
\* creation response, and returns the id and the projection of that
\* response; it is never found in the polling loop.
C25_NoWaitReturnsAtOnce ==
    /\ [](call.pc = "polling" => ~DeclinesWait(call.props))
    /\ [][(/\ outcome' # outcome
           /\ outcome'.op = "create"
           /\ DeclinesWait(outcome'.props)) =>
            /\ call = Idle /\ call' = Idle
            /\ outcome'.status = "ok"
            /\ outcome'.polls = 0
            /\ outcome'.elapsed = 0
            /\ outcome'.id = nextId
            /\ nextId' = nextId + 1
            /\ DOMAIN remote' = (DOMAIN remote) \cup {nextId}
            /\ \A id \in DOMAIN remote : remote'[id] = remote[id]
            /\ outcome'.observed = remote'[nextId].execution_status
            /\ IsProjection(outcome'.outs, remote'[nextId], outcome'.props)]_vars

\* C25 witness: create returned at once the projection of a creation
\* response that is still RUNNING
C25_Witness ==
    /\ outcome.op = "create"
    /\ outcome.status = "ok"
    /\ DeclinesWait(outcome.props)
    /\ outcome.observed = "RUNNING"
    /\ outcome.polls = 0
    /\ "chunking_parameters" \in DOMAIN outcome.outs

-----------------------------------------------------------------------------
(* Well-formedness of the diff result *)

\* diff returned a result
DiffReturned == result.done /\ ~result.raised

\* C26: in every result diff returns, changes is true exactly when the names
\* differ or replaces is not empty, and replaces is empty, or exactly the
\* group marker "chunking_parameters", or at most three names
\* "chunking_parameters.<key>" of chunking keys; the marker never comes with
\* field names.
C26_ResultWellFormed ==
    DiffReturned =>
        /\ result.changes <=> (~SameName \/ result.replaces # {})
        /\ \/ result.replaces = {}
           \/ result.replaces = {"chunking_parameters"}
           \/ /\ result.replaces \subseteq Prefixed(ChunkKeys)
              /\ Cardinality(result.replaces) <= 3

\* C26 witness: the same name, exactly three fields to replace
C26_Witness ==
    /\ DiffReturned
    /\ SameName
    /\ result.changes
    /\ Cardinality(result.replaces) = 3
    /\ "chunking_parameters.separators" \in result.replaces

====
